---------------------------- MODULE Spec2Model ----------------------------
(*
  Model of pyopendota (src/opendota/opendota.py): the OpenDota.request
  dispatcher with its file cache, the endpoint methods built on it, and the
  fantasy scorer.

  JSON values are tagged tuples <<tag, payload>>; text is a sequence of
  Unicode code points; a file and a response body are sequences of bytes.
*)
EXTENDS Integers, Sequences, FiniteSets, TLC

VARIABLES api_key, locale_encoding, files, stored, last, fantasy, fantasy_arg
\* fantasy is self.fantasy after __post_init__, fantasy_arg the fantasy
\* argument the constructor was given

vars == <<api_key, locale_encoding, files, stored, last, fantasy, fantasy_arg>>

-----------------------------------------------------------------------------
(* Bounds of the model *)

\* team ids are 1..MaxTeamId
MaxTeamId == 1
\* get_player_matches is called with days in 1..MaxDays
MaxDays == 2
\* hero ids are 1..MaxHeroId
MaxHeroId == 1
\* a match record has MaxPlayers players
MaxPlayers == 2
\* raw metric values are 0..MaxStat
MaxStat == 5

\* dataclass default of OpenDota.delay
delay == 3

-----------------------------------------------------------------------------
(* JSON values as json.loads produces them *)

NoValue == <<"novalue">>
JNull == <<"null">>
JBool(b) == <<"bool", b>>
JNum(n) == <<"num", n>>
JStr(s) == <<"str", s>>
JList(xs) == <<"list", xs>>
JObj(kv) == <<"obj", kv>>

Tag(v) == v[1]

\* code points of the object keys and literals the model uses
K_error == <<101, 114, 114, 111, 114>>
K_name == <<110, 97, 109, 101>>
K_team_id == <<116, 101, 97, 109, 95, 105, 100>>
K_match_id == <<109, 97, 116, 99, 104, 95, 105, 100>>
K_version == <<118, 101, 114, 115, 105, 111, 110>>
K_job == <<106, 111, 98>>
K_jobId == <<106, 111, 98, 73, 100>>
K_hero_id == <<104, 101, 114, 111, 95, 105, 100>>
K_rows == <<114, 111, 119, 115>>
T_null == <<110, 117, 108, 108>>
T_true == <<116, 114, 117, 101>>
T_false == <<102, 97, 108, 115, 101>>

\* strings: "a", e-acute, A-tilde + copyright sign (whose cp1252 bytes are
\* the UTF-8 bytes of e-acute), Cyrillic sha (not in cp1252), a lone
\* surrogate (not encodable at all), "error"
S_a == <<97>>
S_eacute == <<233>>
S_Atilde_copy == <<195, 169>>
S_sha == <<1096>>
S_surrogate == <<55296>>
S_error == K_error

\* the concatenation of a sequence of sequences (by halves, to keep the
\* evaluation shallow)
RECURSIVE Concat(_)
Concat(seqs) ==
    IF seqs = <<>> THEN <<>>
    ELSE IF Len(seqs) = 1 THEN seqs[1]
    ELSE LET h == Len(seqs) \div 2
         IN  Concat(SubSeq(seqs, 1, h)) \o Concat(SubSeq(seqs, h + 1, Len(seqs)))

RECURSIVE Digits(_)
Digits(n) ==
    IF n < 10 THEN <<48 + n>> ELSE Digits(n \div 10) \o <<48 + (n % 10)>>

HexDigit(d) == IF d < 10 THEN 48 + d ELSE 87 + d

\* \uXXXX escape of one code point
Escape(cp) ==
    <<92, 117, HexDigit(cp \div 4096), HexDigit((cp \div 256) % 16),
      HexDigit((cp \div 16) % 16), HexDigit(cp % 16)>>

\* json.encoder string encoding: with ensure_ascii every code point above
\* 127 becomes a \uXXXX escape, without it the code point is kept
EncodeChars(s, ensure_ascii) ==
    Concat([i \in 1..Len(s) |->
               IF ensure_ascii /\ s[i] > 127 THEN Escape(s[i]) ELSE <<s[i]>>])

EncodeString(s, ensure_ascii) == <<34>> \o EncodeChars(s, ensure_ascii) \o <<34>>

IsPrimitive(v) == Tag(v) \in {"null", "bool", "num", "str"}

\* json.JSONEncoder.iterencode: the chunks json.dump hands to fp.write, one
\* after the other
RECURSIVE Chunks(_, _), ListChunks(_, _, _), DictChunks(_, _, _)
Chunks(v, ensure_ascii) ==
    CASE Tag(v) = "null" -> <<T_null>>
      [] Tag(v) = "bool" -> IF v[2] THEN <<T_true>> ELSE <<T_false>>
      [] Tag(v) = "num" -> <<Digits(v[2])>>
      [] Tag(v) = "str" -> <<EncodeString(v[2], ensure_ascii)>>
      [] Tag(v) = "list" ->
            IF v[2] = <<>> THEN <<<<91, 93>>>>
            ELSE ListChunks(v[2], TRUE, ensure_ascii) \o <<<<93>>>>
      [] Tag(v) = "obj" ->
            IF v[2] = <<>> THEN <<<<123, 125>>>>
            ELSE <<<<123>>>> \o DictChunks(v[2], TRUE, ensure_ascii) \o <<<<125>>>>

ListChunks(xs, first, ensure_ascii) ==
    IF xs = <<>> THEN <<>>
    ELSE LET buf == IF first THEN <<91>> ELSE <<44, 32>>
             x == Head(xs)
             here == IF IsPrimitive(x)
                     THEN <<buf \o Chunks(x, ensure_ascii)[1]>>
                     ELSE <<buf>> \o Chunks(x, ensure_ascii)
         IN  here \o ListChunks(Tail(xs), FALSE, ensure_ascii)

DictChunks(kv, first, ensure_ascii) ==
    IF kv = <<>> THEN <<>>
    ELSE LET sep == IF first THEN <<>> ELSE <<<<44, 32>>>>
             k == Head(kv)[1]
             x == Head(kv)[2]
         IN  sep \o <<EncodeString(k, ensure_ascii)>> \o <<<<58, 32>>>>
                 \o Chunks(x, ensure_ascii)
                 \o DictChunks(Tail(kv), FALSE, ensure_ascii)

\* json.dumps(v, ensure_ascii=...)
Dumps(v, ensure_ascii) == Concat(Chunks(v, ensure_ascii))

-----------------------------------------------------------------------------
(* Text encodings *)

IsSurrogate(cp) == cp >= 55296 /\ cp <= 57343

\* str.encode("utf-8") of one code point; <<>> when it cannot be encoded
Utf8Char(cp) ==
    IF cp < 128 THEN <<cp>>
    ELSE IF cp < 2048 THEN <<192 + (cp \div 64), 128 + (cp % 64)>>
    ELSE IF IsSurrogate(cp) THEN <<>>
    ELSE <<224 + (cp \div 4096), 128 + ((cp \div 64) % 64), 128 + (cp % 64)>>

\* str.encode("cp1252") of one code point; <<>> when it cannot be encoded
Cp1252Char(cp) ==
    IF cp < 128 \/ (cp >= 160 /\ cp <= 255) THEN <<cp>> ELSE <<>>

EncodeChar(enc, cp) == IF enc = "utf-8" THEN Utf8Char(cp) ELSE Cp1252Char(cp)

CanEncode(enc, text) == \A i \in 1..Len(text) : EncodeChar(enc, text[i]) # <<>>

\* str.encode(enc) of a text all of whose characters can be encoded; ASCII
\* text is its own encoding in both
Encode(enc, text) ==
    IF \A i \in 1..Len(text) : text[i] < 128
    THEN text
    ELSE Concat([i \in 1..Len(text) |-> EncodeChar(enc, text[i])])

IsCont(b) == b >= 128 /\ b <= 191

\* the length of the UTF-8 sequence a byte starts; 0 when it starts none
Utf8Length(b) ==
    IF b < 128 THEN 1
    ELSE IF b >= 194 /\ b <= 223 THEN 2
    ELSE IF b >= 224 /\ b <= 239 THEN 3
    ELSE 0

\* the code point of the UTF-8 sequence that starts at bytes[i]
Utf8CodePoint(bytes, i) ==
    LET b == bytes[i]
    IN  IF Utf8Length(b) = 1 THEN b
        ELSE IF Utf8Length(b) = 2 THEN (b - 192) * 64 + (bytes[i + 1] - 128)
        ELSE (b - 224) * 4096 + (bytes[i + 1] - 128) * 64 + (bytes[i + 2] - 128)

\* the sequence starting at bytes[i] is well formed: its continuation bytes
\* are there, and it is neither overlong nor a surrogate
Utf8WellFormed(bytes, i) ==
    LET n == Utf8Length(bytes[i])
    IN  /\ n > 0
        /\ i + n - 1 <= Len(bytes)
        /\ \A j \in (i + 1)..(i + n - 1) : IsCont(bytes[j])
        /\ i + n <= Len(bytes) => ~IsCont(bytes[i + n])
        /\ n = 3 => /\ Utf8CodePoint(bytes, i) >= 2048
                    /\ ~IsSurrogate(Utf8CodePoint(bytes, i))

\* bytes.decode("utf-8"): [ok, text]. ASCII bytes are their own text.
\* Otherwise every byte that is no continuation byte starts a sequence, and
\* the text is the code points of the sequences
Utf8Decode(bytes) ==
    LET starts == SelectSeq([i \in 1..Len(bytes) |-> i],
                            LAMBDA i : ~IsCont(bytes[i]))
    IN  IF \A i \in 1..Len(bytes) : bytes[i] < 128
        THEN [ok |-> TRUE, text |-> bytes]
        ELSE IF /\ ~IsCont(bytes[1])
                /\ \A k \in 1..Len(starts) : Utf8WellFormed(bytes, starts[k])
        THEN [ok |-> TRUE,
              text |-> [k \in 1..Len(starts) |-> Utf8CodePoint(bytes, starts[k])]]
        ELSE [ok |-> FALSE, text |-> <<>>]

-----------------------------------------------------------------------------
(* json.loads, for the JSON the model exchanges: null, true, false,
   non-negative integers, strings whose only escapes are \uXXXX, arrays and
   objects, with the blanks json.dump writes after "," and ":" *)

ParseFail == [ok |-> FALSE, value |-> NoValue, next |-> 0]
Parsed(v, next) == [ok |-> TRUE, value |-> v, next |-> next]

IsDigit(c) == c >= 48 /\ c <= 57
IsHex(c) == IsDigit(c) \/ (c >= 97 /\ c <= 102) \/ (c >= 65 /\ c <= 70)
HexValue(c) == IF IsDigit(c) THEN c - 48 ELSE IF c >= 97 THEN c - 87 ELSE c - 55

At(text, i) == IF i >= 1 /\ i <= Len(text) THEN text[i] ELSE 0

\* the position after the blanks at i
SkipBlank(text, i) == IF At(text, i) = 32 THEN i + 1 ELSE i

RECURSIVE ToNumber(_)
ToNumber(digits) ==
    IF digits = <<>> THEN 0
    ELSE ToNumber(SubSeq(digits, 1, Len(digits) - 1)) * 10
         + (digits[Len(digits)] - 48)

\* the positions of text[from..to] where a character or an escape starts:
\* those that are not one of the five places after a backslash
EscapeStarts(text, from, to) ==
    SelectSeq([k \in 1..(to - from + 1) |-> from + k - 1],
              LAMBDA k : \A b \in 1..5 : k - b < from \/ text[k - b] # 92)

\* text[k] starts a \uXXXX escape that ends by text[to], or is a character
\* a string may hold
GoodAt(text, k, to) ==
    IF text[k] = 92
    THEN /\ k + 5 <= to
         /\ text[k + 1] = 117
         /\ \A h \in 2..5 : IsHex(text[k + h])
    ELSE text[k] >= 32

CharAt(text, k) ==
    IF text[k] = 92
    THEN HexValue(text[k + 2]) * 4096 + HexValue(text[k + 3]) * 256
         + HexValue(text[k + 4]) * 16 + HexValue(text[k + 5])
    ELSE text[k]

Unescaped(text, to, starts) ==
    IF \A n \in 1..Len(starts) : GoodAt(text, starts[n], to)
    THEN [ok |-> TRUE, chars |-> [n \in 1..Len(starts) |-> CharAt(text, starts[n])]]
    ELSE [ok |-> FALSE, chars |-> <<>>]

\* the characters of the string body text[from..to]: [ok, chars]; a body
\* without a backslash or a control character is its own characters
Unescape(text, from, to) ==
    IF \A k \in from..to : text[k] # 92 /\ text[k] >= 32
    THEN [ok |-> TRUE, chars |-> SubSeq(text, from, to)]
    ELSE Unescaped(text, to, EscapeStarts(text, from, to))

\* the position of the first quote at or after text[i], 0 without one
RECURSIVE StringEnd(_, _)
StringEnd(text, i) ==
    IF i > Len(text) THEN 0
    ELSE IF text[i] = 34 THEN i
    ELSE StringEnd(text, i + 1)

StringRead(u, close) ==
    IF u.ok THEN Parsed(JStr(u.chars), close + 1) ELSE ParseFail

StringClosed(text, i, close) ==
    IF close = 0 THEN ParseFail
    ELSE StringRead(Unescape(text, i + 1, close - 1), close)

\* a string that opens at text[i]
ParseString(text, i) ==
    IF At(text, i) # 34 THEN ParseFail
    ELSE StringClosed(text, i, StringEnd(text, i + 1))

\* the position after the digits from text[i] on
RECURSIVE DigitsEnd(_, _)
DigitsEnd(text, i) ==
    IF IsDigit(At(text, i)) THEN DigitsEnd(text, i + 1) ELSE i

NumberRead(text, i, stop) ==
    IF stop = i \/ (At(text, i) = 48 /\ stop > i + 1) THEN ParseFail
    ELSE Parsed(JNum(ToNumber(SubSeq(text, i, stop - 1))), stop)

\* a number that starts at text[i]
ParseNumber(text, i) == NumberRead(text, i, DigitsEnd(text, i))

RECURSIVE ParseValue(_, _), ParseItems(_, _, _), ParseMembers(_, _, _)

\* the value that starts at text[i]: [ok, value, next]
ParseValue(text, i) ==
    CASE At(text, i) = 110 ->
            IF SubSeq(text, i, i + 3) = T_null THEN Parsed(JNull, i + 4)
            ELSE ParseFail
      [] At(text, i) = 116 ->
            IF SubSeq(text, i, i + 3) = T_true THEN Parsed(JBool(TRUE), i + 4)
            ELSE ParseFail
      [] At(text, i) = 102 ->
            IF SubSeq(text, i, i + 4) = T_false THEN Parsed(JBool(FALSE), i + 5)
            ELSE ParseFail
      [] At(text, i) = 34 -> ParseString(text, i)
      [] IsDigit(At(text, i)) -> ParseNumber(text, i)
      [] At(text, i) = 91 ->
            IF At(text, i + 1) = 93 THEN Parsed(JList(<<>>), i + 2)
            ELSE ParseItems(text, i + 1, <<>>)
      [] At(text, i) = 123 ->
            IF At(text, i + 1) = 125 THEN Parsed(JObj(<<>>), i + 2)
            ELSE ParseMembers(text, i + 1, <<>>)
      [] OTHER -> ParseFail

\* what follows an item that ended before text[i]: the next item after a
\* comma, or the end of the array
AfterItem(text, i, items) ==
    IF At(text, i) = 44 THEN ParseItems(text, SkipBlank(text, i + 1), items)
    ELSE IF At(text, i) = 93 THEN Parsed(JList(items), i + 1)
    ELSE ParseFail

ItemParsed(text, item, items) ==
    IF ~item.ok THEN ParseFail
    ELSE AfterItem(text, item.next, Append(items, item.value))

\* the items of an array from text[i] on, after those in items
ParseItems(text, i, items) == ItemParsed(text, ParseValue(text, i), items)

AfterMember(text, i, members) ==
    IF At(text, i) = 44 THEN ParseMembers(text, SkipBlank(text, i + 1), members)
    ELSE IF At(text, i) = 125 THEN Parsed(JObj(members), i + 1)
    ELSE ParseFail

MemberValueParsed(text, key, v, members) ==
    IF ~v.ok THEN ParseFail
    ELSE AfterMember(text, v.next, Append(members, <<key.value[2], v.value>>))

MemberKeyParsed(text, key, members) ==
    IF ~key.ok \/ At(text, key.next) # 58 THEN ParseFail
    ELSE MemberValueParsed(text, key,
                           ParseValue(text, SkipBlank(text, key.next + 1)),
                           members)

\* the members of an object from text[i] on, after those in members
ParseMembers(text, i, members) ==
    MemberKeyParsed(text, ParseString(text, i), members)

LoadsParsed(text, v) ==
    IF v.ok /\ v.next = Len(text) + 1
    THEN [ok |-> TRUE, value |-> v.value]
    ELSE [ok |-> FALSE, value |-> NoValue]

\* json.loads(text): [ok, value]
Loads(text) == LoadsParsed(text, ParseValue(text, 1))


-----------------------------------------------------------------------------
(* The API's answers and the cache keys *)

\* Python's None, where the code holds a str or None
None == "None"

\* one team object of /teams and of /teams/{team_id}
Team(id, name) == JObj(<<<<K_team_id, JNum(id)>>, <<K_name, JStr(name)>>>>)

ErrorObject == JObj(<<<<K_error, JStr(S_a)>>>>)

\* what the API may answer to a direct request
PlainValues ==
    { JNull, JNum(5), JStr(S_a), JStr(S_eacute), JStr(S_Atilde_copy),
      JList(<<JStr(S_a), JStr(S_sha)>>), JList(<<JStr(S_a), JStr(S_surrogate)>>),
      JObj(<<>>), ErrorObject }

TeamIds == 1..MaxTeamId
TeamNames == {S_a, S_sha}
TeamValues == { Team(id, name) : id \in TeamIds, name \in TeamNames }

\* /teams answers a list of team objects, here of one team
TeamsValues == { JList(<<t>>) : t \in TeamValues } \cup {ErrorObject}

\* /players/{id}/matches?date=days answers the player's matches of the last
\* `days` days: here two, whose match_id tells the days asked for, one parsed
\* (version 21) and one not yet (version null)
DaysChoices == 1..MaxDays
MatchEntry(days, version) ==
    JObj(<<<<K_match_id, JNum(days)>>, <<K_version, version>>>>)
PlayerMatches(days) ==
    JList(<<MatchEntry(days, JNum(21)), MatchEntry(days, JNull)>>)
MatchesValues == { PlayerMatches(days) : days \in DaysChoices }

\* POST /request/{match_id} answers a job
JobValues == { JObj(<<<<K_job, JObj(<<<<K_jobId, JNum(1)>>>>)>>>>), ErrorObject }

\* /benchmarks?hero_id=h answers the benchmarks of hero h
HeroIds == 1..MaxHeroId
Benchmarks(hero_id) == JObj(<<<<K_hero_id, JNum(hero_id)>>>>)
BenchmarksValues == { Benchmarks(h) : h \in HeroIds }

\* /explorer and /search answers
ExplorerValues == { JObj(<<<<K_rows, JList(<<>>)>>>>), JObj(<<>>), ErrorObject }
SearchValues == { JList(<<>>), ErrorObject }

\* a response: the transport failed, or a body arrived
TransportError == [kind |-> "transport_error", bytes |-> <<>>]
Body(bytes) == [kind |-> "body", bytes |-> bytes]

\* the body an API host sends for a value: UTF-8 JSON, a character that
\* UTF-8 cannot hold (a lone surrogate) as a \u escape
BodyOf(v) ==
    IF CanEncode("utf-8", Dumps(v, FALSE))
    THEN Body(Encode("utf-8", Dumps(v, FALSE)))
    ELSE Body(Encode("utf-8", Dumps(v, TRUE)))

\* a body that is not UTF-8, and one that is not JSON
BadBodies == {Body(<<255>>), Body(<<123>>)}

ResponsesOf(values) ==
    { BodyOf(v) : v \in values } \cup BadBodies \cup {TransportError}

\* the responses to a direct request
PlainResponses == ResponsesOf(PlainValues)

\* what an endpoint method can be answered: a body or a transport failure
AnswersOf(values) == { BodyOf(v) : v \in values } \cup {TransportError}

\* the answers to the endpoint methods
TeamsAnswers == AnswersOf(TeamsValues)
TeamAnswers ==
    [t \in TeamIds |->
        AnswersOf({ Team(t, n) : n \in TeamNames } \cup {ErrorObject})]
BenchmarksAnswers ==
    [h \in HeroIds |-> AnswersOf({Benchmarks(h), ErrorObject})]
MatchesAnswers ==
    [d \in DaysChoices |-> AnswersOf({PlayerMatches(d), ErrorObject})]
JobAnswers == AnswersOf(JobValues)
ExplorerAnswers == AnswersOf(ExplorerValues)
SearchAnswers == AnswersOf(SearchValues)

RequestKeys == {"a.json"}

\* the filenames of the endpoint methods
TeamFile(team_id) == "team_" \o ToString(team_id) \o ".json"
BenchmarksFile(hero_id) == "benchmarks_" \o ToString(hero_id) \o ".json"
PlayerIds == {1}
PlayerMatchesFile(player_id) == "player_" \o ToString(player_id) \o "_matches.json"
MatchIds == {1}
MatchFile(match_id) == "match_" \o ToString(match_id) \o ".json"
ApiKeys ==
    {"teams.json"} \cup { PlayerMatchesFile(p) : p \in PlayerIds }
    \cup { TeamFile(t) : t \in TeamIds } \cup { BenchmarksFile(h) : h \in HeroIds }
    \cup { MatchFile(m) : m \in MatchIds }

Keys == RequestKeys \cup ApiKeys

Absent == [exists |-> FALSE, bytes |-> <<>>]
File(bytes) == [exists |-> TRUE, bytes |-> bytes]

-----------------------------------------------------------------------------
(* OpenDota.request *)

\* the bytes fp.write leaves for the chunks written before the first one
\* that the file's encoding cannot encode
WriteChunks(enc, chunks) ==
    LET bad == { i \in 1..Len(chunks) : ~CanEncode(enc, chunks[i]) }
        n == IF bad = {} THEN Len(chunks)
             ELSE (CHOOSE i \in bad : \A j \in bad : i <= j) - 1
    IN  Encode(enc, Concat(SubSeq(chunks, 1, n)))

\* bytes that are not UTF-8, and text that is not JSON
GarbageBytes == {<<255>>, <<123>>}

ReadFail == [ok |-> FALSE, value |-> NoValue]

\* json.load(f) on the decoded file
ReadText(d) == IF d.ok THEN Loads(d.text) ELSE ReadFail

\* open(path, "r", encoding="utf-8"); json.load(f) on a file of these bytes
ReadBytes(bytes) == ReadText(Utf8Decode(bytes))

\* with open(path, "r", encoding="utf-8") as f: json.load(f)
CacheRead(fs, filename) == ReadBytes(fs[filename].bytes)

\* CacheLookup without the test of force
CacheLookup_IgnoringForce(fs, filename, force) ==
    IF filename # None /\ fs[filename].exists
    THEN CacheRead(fs, filename)
    ELSE ReadFail

\* if filename is not None ... if os.path.isfile(path) and not force: try to
\* load the file, and go on to the API when that fails; [ok, value]
CacheLookup(fs, filename, force) ==
    IF filename # None /\ ~force /\ fs[filename].exists
    THEN CacheRead(fs, filename)
    ELSE ReadFail

\* the cache answers the call
CacheHit(fs, filename, force) == CacheLookup(fs, filename, force).ok

\* dict item assignment, keeping insertion order
SetItem(data, k, v) ==
    IF \E i \in 1..Len(data) : data[i][1] = k
    THEN [i \in 1..Len(data) |-> IF data[i][1] = k THEN <<k, v>> ELSE data[i]]
    ELSE Append(data, <<k, v>>)

\* QueryData that never adds the api_key
QueryData_WithoutKey(data) == data

\* data = data or {}; without an api_key nothing is added, with one it is
\* added to data
QueryData(data) ==
    IF api_key = None THEN data ELSE SetItem(data, "api_key", api_key)

\* time.sleep(self.delay) only without an api_key
SleepTime == IF api_key = None THEN delay ELSE 0

\* url_parts[3]: the k=v pairs of the URL's query string (GET only)
QueryString(post, data) == IF ~post THEN QueryData(data) ELSE <<>>

\* the form body of session.post(query_url, data=data)
PostBody(post, data) == IF post THEN QueryData(data) ELSE <<>>

ParseError(exc) == [outcome |-> exc, value |-> NoValue]

\* json.loads(content)
LoadContent(j) ==
    IF j.ok THEN [outcome |-> "ok", value |-> j.value]
    ELSE ParseError("JSONDecodeError")

\* content = r.content.decode("utf-8")
DecodeContent(d) ==
    IF d.ok THEN LoadContent(Loads(d.text)) ELSE ParseError("UnicodeDecodeError")

\* r.content.decode("utf-8"); json.loads(content): [outcome, value]
ParseBody(resp) == DecodeContent(Utf8Decode(resp.bytes))

\* bool(json_data)
Truthy(v) ==
    CASE Tag(v) = "null" -> FALSE
      [] Tag(v) = "bool" -> v[2]
      [] Tag(v) = "num" -> v[2] # 0
      [] OTHER -> v[2] # <<>>

\* s contains sub
IsSubstring(sub, s) ==
    \E i \in 0..(Len(s) - Len(sub)) : SubSeq(s, i + 1, i + Len(sub)) = sub

\* "error" in json_data: "True", "False", or "TypeError"
ContainsError(v) ==
    CASE Tag(v) = "obj" ->
            IF \E i \in 1..Len(v[2]) : v[2][i][1] = K_error THEN "True" ELSE "False"
      [] Tag(v) = "list" ->
            IF \E i \in 1..Len(v[2]) : v[2][i] = JStr(S_error) THEN "True" ELSE "False"
      [] Tag(v) = "str" -> IF IsSubstring(S_error, v[2]) THEN "True" ELSE "False"
      [] OTHER -> "TypeError"

\* ErrorCheck that lets every response pass
ErrorCheck_Absent(v) == "pass"

\* if json_data and "error" in json_data: warn with json_data['error'] and
\* return None. "pass": go on; "error": return None; "TypeError": raised by
\* the test itself or by json_data['error'] on a str or a list
ErrorCheck(v) ==
    IF ~Truthy(v) THEN "pass"
    ELSE IF ContainsError(v) = "False" THEN "pass"
    ELSE IF ContainsError(v) = "TypeError" THEN "TypeError"
    ELSE IF Tag(v) = "obj" THEN "error"
    ELSE "TypeError"

\* json.dump's chunks written to a file of encoding enc: [ok, bytes]
WriteFile(enc, chunks) ==
    [ok |-> \A i \in 1..Len(chunks) : CanEncode(enc, chunks[i]),
     bytes |-> WriteChunks(enc, chunks)]

\* with open(path, "w") as f: json.dump(json_data, f, ensure_ascii=False).
\* The file is opened in the platform's preferred encoding
CacheWrite(v) == WriteFile(locale_encoding, Chunks(v, FALSE))

\* a call that has done nothing yet
Quiet(fs, post) ==
    [files |-> fs, outcome |-> "return", ret |-> JNull, hit |-> FALSE,
     net |-> 0, slept |-> 0, post |-> post, query |-> <<>>, body |-> <<>>,
     json |-> NoValue, wrote |-> FALSE, api_error |-> FALSE]

\* the sleep and session.get(query_url) or session.post(query_url, data=data)
Sent(fs, post, data) ==
    [Quiet(fs, post) EXCEPT !.net = 1, !.slept = SleepTime,
                            !.query = QueryString(post, data),
                            !.body = PostBody(post, data)]

\* if filename is not None: the file is opened, truncated, and written
Persist(sent, fs, filename, json_data, w) ==
    IF ~w.ok
    THEN [sent EXCEPT !.files = [fs EXCEPT ![filename] = File(w.bytes)],
                      !.outcome = "UnicodeEncodeError", !.ret = NoValue,
                      !.json = json_data]
    ELSE [sent EXCEPT !.files = [fs EXCEPT ![filename] = File(w.bytes)],
                      !.ret = json_data, !.json = json_data, !.wrote = TRUE]

\* the error check, then the write and the return
Checked(sent, fs, filename, json_data, check) ==
    IF check = "TypeError"
    THEN [sent EXCEPT !.outcome = "TypeError", !.ret = NoValue,
                      !.json = json_data]
    ELSE IF check = "error"
    THEN [sent EXCEPT !.ret = JNull, !.json = json_data, !.api_error = TRUE]
    ELSE IF filename = None
    THEN [sent EXCEPT !.ret = json_data, !.json = json_data]
    ELSE Persist(sent, fs, filename, json_data, CacheWrite(json_data))

\* Received with the cache file opened for writing before the body is parsed
Received_OpeningFirst(sent, fs, filename, parsed) ==
    IF parsed.outcome # "ok"
    THEN [sent EXCEPT !.files = IF filename = None THEN fs
                                ELSE [fs EXCEPT ![filename] = File(<<>>)],
                      !.outcome = parsed.outcome, !.ret = NoValue]
    ELSE Checked(sent, fs, filename, parsed.value, ErrorCheck(parsed.value))

\* the response body is decoded and parsed
Received(sent, fs, filename, parsed) ==
    IF parsed.outcome # "ok"
    THEN [sent EXCEPT !.outcome = parsed.outcome, !.ret = NoValue]
    ELSE Checked(sent, fs, filename, parsed.value, ErrorCheck(parsed.value))

\* the network part of request()
Fetch(fs, post, data, filename, resp) ==
    IF resp.kind = "transport_error"
    THEN [Sent(fs, post, data) EXCEPT !.outcome = "ConnectionError",
                                      !.ret = NoValue]
    ELSE Received(Sent(fs, post, data), fs, filename, ParseBody(resp))

\* the cache answers, or the network is asked
Answer(fs, post, data, filename, cached, resp) ==
    IF cached.ok
    THEN [Quiet(fs, post) EXCEPT !.ret = cached.value, !.hit = TRUE]
    ELSE Fetch(fs, post, data, filename, resp)

\* the whole of request(): the files afterwards and what the call did
request(fs, url, post, data, filename, force, resp) ==
    Answer(fs, post, data, filename, CacheLookup(fs, filename, force), resp)

-----------------------------------------------------------------------------
(* The fantasy configuration of the constructor *)

\* FANTASY: the default multipliers and the base of deaths, in thousandths
\* (every default is a decimal fraction of at most three places)
FANTASY ==
    << <<"kills", 300>>,
       <<"deaths", -300>>,
       <<"assists", 0>>,
       <<"last_hits", 3>>,
       <<"gold_per_min", 2>>,
       <<"xp_per_min", 0>>,
       <<"tower_kills", 1000>>,
       <<"tower_damage", 0>>,
       <<"hero_damage", 0>>,
       <<"courier_kills", 0>>,
       <<"observer_kills", 0>>,
       <<"sentry_kills", 0>>,
       <<"roshan_kills", 1000>>,
       <<"teamfight", 3000>>,
       <<"observer_placed", 500>>,
       <<"sentry_placed", 0>>,
       <<"camps_stacked", 500>>,
       <<"runes_grabbed", 250>>,
       <<"first_blood", 4000>>,
       <<"stuns", 50>>,
       <<"hero_healing", 0>>,
       <<"deaths_base", 3000>> >>

\* d.update(other)
RECURSIVE Update(_, _)
Update(d, other) ==
    IF other = <<>> THEN d
    ELSE Update(SetItem(d, Head(other)[1], Head(other)[2]), Tail(other))

\* k in d
In(d, k) == \E i \in 1..Len(d) : d[i][1] = k

\* d.get(k, default)
Get(d, k, default) ==
    IF In(d, k) THEN d[CHOOSE i \in 1..Len(d) : d[i][1] = k][2] ELSE default

\* the fantasy argument of the constructor: None, or a dict
NoFantasy == [given |-> FALSE, items |-> <<>>]
FantasyDict(items) == [given |-> TRUE, items |-> items]

\* post_init_fantasy that takes the argument for the whole configuration
post_init_fantasy_Replacing(arg) ==
    IF arg.given THEN arg.items ELSE FANTASY

\* __post_init__: self.fantasy becomes FANTASY updated with the argument
post_init_fantasy(arg) ==
    IF arg.given THEN Update(FANTASY, arg.items) ELSE FANTASY

-----------------------------------------------------------------------------
(* The state machine of direct request() calls *)

\* what the last operation was and did
Idle ==
    [op |-> "init", filename |-> None, arg |-> "", force |-> FALSE,
     post |-> FALSE, outcome |-> "return", ret |-> NoValue, hit |-> FALSE,
     net |-> 0, slept |-> 0, query |-> <<>>, body |-> <<>>, json |-> NoValue,
     wrote |-> FALSE, api_error |-> FALSE, had_stored |-> FALSE,
     stored_value |-> NoValue, before |-> Absent]

\* the record of a call op(arg) that ran request() with result r on files fs
Record(op, arg, filename, force, fs, r) ==
    [op |-> op, filename |-> filename, arg |-> arg, force |-> force,
     post |-> r.post, outcome |-> r.outcome, ret |-> r.ret, hit |-> r.hit,
     net |-> r.net, slept |-> r.slept, query |-> r.query, body |-> r.body,
     json |-> r.json, wrote |-> r.wrote, api_error |-> r.api_error,
     had_stored |-> filename # None /\ stored[filename] # NoValue,
     stored_value |-> IF filename = None THEN NoValue ELSE stored[filename],
     before |-> IF filename = None THEN Absent ELSE fs[filename]]

\* the value the last completed request() persisted under each key, while
\* nothing else has touched the file since
Remember(filename, r) ==
    IF filename = None THEN stored
    ELSE IF r.wrote THEN [stored EXCEPT ![filename] = r.json]
    ELSE IF r.outcome = "UnicodeEncodeError"
    THEN [stored EXCEPT ![filename] = NoValue]
    ELSE stored

DataChoices == {<<<<"q", "1">>>>}

Init ==
    /\ api_key \in {None, "K"}
    /\ locale_encoding \in {"utf-8", "cp1252"}
    /\ files = [k \in Keys |-> Absent]
    /\ stored = [k \in Keys |-> NoValue]
    /\ last = Idle
    /\ fantasy_arg = NoFantasy
    /\ fantasy = post_init_fantasy(fantasy_arg)

\* the answers that matter: none when the cache answers
Ask(filename, force, answers) ==
    IF CacheHit(files, filename, force) THEN {TransportError} ELSE answers

\* the files an endpoint call wrote outside request() are no longer what a
\* request persisted
Forget(filename, r) ==
    [k \in Keys |->
        IF k # filename /\ r.files[k] # files[k] THEN NoValue
        ELSE Remember(filename, r)[k]]

\* the call op(arg) ends with result r
Done(op, arg, filename, force, r) ==
    /\ files' = r.files
    /\ stored' = Forget(filename, r)
    /\ last' = Record(op, arg, filename, force, files, r)
    /\ UNCHANGED <<api_key, locale_encoding, fantasy, fantasy_arg>>

\* a caller runs request(url, post=, data=, filename=, force=); the API's
\* response is only asked for when the cache does not answer
Request ==
    \E filename \in RequestKeys \cup {None}, force \in BOOLEAN, post \in BOOLEAN,
       data \in DataChoices :
        \E resp \in Ask(filename, force, PlainResponses) :
            Done("request", "", filename, force,
                 request(files, "/x", post, data, filename, force, resp))

\* something outside the library damages a cache file: bytes that are not
\* UTF-8, or text that is not JSON
Corrupt ==
    \E k \in RequestKeys, bytes \in GarbageBytes :
        /\ files[k].exists
        /\ files' = [files EXCEPT ![k] = File(bytes)]
        /\ stored' = [stored EXCEPT ![k] = NoValue]
        /\ last' = [Idle EXCEPT !.op = "corrupt", !.filename = k]
        /\ UNCHANGED <<api_key, locale_encoding, fantasy, fantasy_arg>>

\* something outside the library deletes a cache file
Delete ==
    \E k \in RequestKeys :
        /\ files[k].exists
        /\ files' = [files EXCEPT ![k] = Absent]
        /\ stored' = [stored EXCEPT ![k] = NoValue]
        /\ last' = [Idle EXCEPT !.op = "delete", !.filename = k]
        /\ UNCHANGED <<api_key, locale_encoding, fantasy, fantasy_arg>>

Next == Request \/ Corrupt \/ Delete

Spec == Init /\ [][Next]_vars

-----------------------------------------------------------------------------
(* Properties of request() *)

\* the last operation was a direct request() call
IsRequest == last.op = "request"

\* the file the last call was given was there and did not load
WasCorrupt == last.before.exists /\ ~ReadBytes(last.before.bytes).ok

\* the API answered the last call with JSON that is no error
GotData == last.json # NoValue /\ ErrorCheck(last.json) = "pass"

\* the API answered the last call with an object that has the key error
GotErrorObject ==
    /\ last.json # NoValue
    /\ Tag(last.json) = "obj"
    /\ ContainsError(last.json) = "True"

\* C1: once a request with filename k has persisted a response and the file
\* was not damaged or deleted since, a request with filename k and force=False
\* makes no network call and does not sleep
C1_CachedMeansNoNetwork ==
    (IsRequest /\ last.filename # None /\ ~last.force /\ last.had_stored)
        => (last.net = 0 /\ last.slept = 0)

\* C2: a request with force=True makes a network call and does not answer
\* from the cache, whatever the cache holds
C2_ForceAlwaysFetches ==
    (IsRequest /\ last.force) => (last.net = 1 /\ ~last.hit)

\* C2 witness: a forced request with a loadable cache entry went to the network
C2_Witness ==
    /\ IsRequest /\ last.force /\ last.filename # None
    /\ last.before.exists /\ ReadBytes(last.before.bytes).ok
    /\ last.net = 1

\* C3: when the API answers an object with the key error, request returns
\* None and the cache entry of the given key is what it was before the call
C3_ErrorNotCached ==
    (IsRequest /\ GotErrorObject)
        => /\ last.outcome = "return"
           /\ last.ret = JNull
           /\ ~last.wrote
           /\ last.filename # None => files[last.filename] = last.before

\* C3 witness: an error answer to a forced request over an existing entry
C3_Witness ==
    /\ IsRequest /\ GotErrorObject /\ last.force
    /\ last.filename # None /\ last.before.exists
    /\ ReadBytes(last.before.bytes).ok

\* C4: a request with force=False over a corrupted cache file fetches, and
\* with the fetched data overwrites the file with JSON that loads as that
\* data, and returns it
C4_CorruptIsRefetched ==
    (IsRequest /\ last.filename # None /\ ~last.force /\ WasCorrupt /\ GotData)
        => /\ last.net = 1
           /\ last.outcome = "return"
           /\ CacheRead(files, last.filename) = [ok |-> TRUE, value |-> last.json]

\* the api_key is one of the k=v pairs
HasKey(pairs) == \E i \in 1..Len(pairs) : pairs[i] = <<"api_key", api_key>>

\* C5 as claimed: a network call is preceded by a sleep of delay without an
\* api_key; with one there is no sleep and the URL's query string holds
\* api_key=<key>, for GET and for POST
C5_KeyInQueryString ==
    (IsRequest /\ last.net = 1)
        => IF api_key = None THEN last.slept = delay
           ELSE last.slept = 0 /\ HasKey(last.query)

\* C5 amended: a network call is preceded by a sleep of delay without an
\* api_key; with one there is no sleep and api_key=<key> is in the URL's
\* query string of a GET and in the form body of a POST
C5_KeyInQueryOrBody ==
    (IsRequest /\ last.net = 1)
        => IF api_key = None
           THEN last.slept = delay /\ ~HasKey(last.query) /\ ~HasKey(last.body)
           ELSE /\ last.slept = 0
                /\ IF last.post
                   THEN HasKey(last.body) /\ last.query = <<>>
                   ELSE HasKey(last.query) /\ last.body = <<>>

\* C5 witness: a POST with an api_key went out with the key in its body
C5_Witness ==
    /\ IsRequest /\ last.net = 1 /\ api_key # None /\ last.post
    /\ HasKey(last.body) /\ last.slept = 0

\* C6: the value a request reads back from the cache is the value the
\* earlier request persisted under that key
C6_RoundTrip ==
    (IsRequest /\ last.hit /\ last.had_stored) => last.ret = last.stored_value

\* the last request asked the network and no JSON value came of it: the
\* transport failed, or the body was not UTF-8 or not JSON
GotNoJson == IsRequest /\ last.net = 1 /\ last.json = NoValue

\* C14: when the transport fails or the response body is not valid UTF-8
\* JSON, request raises the failure to its caller and the cache file of the
\* given key is exactly what it was before the call, also under force=True
C14_FailureLeavesCache ==
    GotNoJson
        => /\ last.outcome
                \in {"ConnectionError", "UnicodeDecodeError", "JSONDecodeError"}
           /\ last.ret = NoValue
           /\ ~last.wrote
           /\ last.filename # None => files[last.filename] = last.before

\* C14 witness: a forced request over a loadable cache entry was answered
\* with a body that is no JSON, raised, and the entry still loads
C14_Witness ==
    /\ GotNoJson /\ last.force /\ last.filename # None
    /\ last.outcome = "JSONDecodeError"
    /\ last.before.exists /\ ReadBytes(last.before.bytes).ok
    /\ CacheRead(files, last.filename).ok

\* C11: a parseable response that is no object with the key error is returned
\* to the caller as a success and, when a filename is given, persisted so that
\* the file loads as that value
C11_OnlyErrorObjectFails ==
    (IsRequest /\ last.net = 1 /\ last.json # NoValue /\ ~GotErrorObject)
        => /\ last.outcome = "return"
           /\ last.ret = last.json
           /\ last.filename # None
                => CacheRead(files, last.filename)
                       = [ok |-> TRUE, value |-> last.json]

-----------------------------------------------------------------------------
(* The endpoint methods built on request() *)

\* the call ends by raising exc
Raise(r, exc) == [r EXCEPT !.outcome = exc, !.ret = NoValue]

\* obj has the key
HasItem(obj, key) == \E i \in 1..Len(obj[2]) : obj[2][i][1] = key

\* obj[key]
Item(obj, key) == obj[2][CHOOSE i \in 1..Len(obj[2]) : obj[2][i][1] = key][2]

\* `for x in v` works on a list, a dict (its keys) and a str (its characters)
Iterable(v) == Tag(v) \in {"list", "obj", "str"}
Elements(v) ==
    CASE Tag(v) = "list" -> v[2]
      [] Tag(v) = "obj" -> [i \in 1..Len(v[2]) |-> JStr(v[2][i][1])]
      [] Tag(v) = "str" -> [i \in 1..Len(v[2]) |-> JStr(<<v[2][i]>>)]

\* get_teams' loop: each team is written to team_<team_id>.json as UTF-8,
\* until a team cannot be written; [files, outcome]
RECURSIVE WriteTeams(_, _)

\* the team's file is opened and json.dump writes its chunks
TeamWritten(fs, path, w, teams) ==
    IF ~w.ok
    THEN [files |-> [fs EXCEPT ![path] = File(w.bytes)],
          outcome |-> "UnicodeEncodeError"]
    ELSE WriteTeams([fs EXCEPT ![path] = File(w.bytes)], teams)

WriteTeams(fs, teams) ==
    IF teams = <<>> THEN [files |-> fs, outcome |-> "return"]
    ELSE IF Tag(Head(teams)) # "obj" THEN [files |-> fs, outcome |-> "TypeError"]
    ELSE IF ~HasItem(Head(teams), K_team_id)
    THEN [files |-> fs, outcome |-> "KeyError"]
    ELSE TeamWritten(fs, TeamFile(Item(Head(teams), K_team_id)[2]),
                     WriteFile("utf-8", Chunks(Head(teams), FALSE)),
                     Tail(teams))

\* get_teams after its loop
TeamsWritten(r, w) ==
    IF w.outcome # "return"
    THEN [Raise(r, w.outcome) EXCEPT !.files = w.files]
    ELSE [r EXCEPT !.files = w.files]

\* get_teams after self.get: `for team in teams`
TeamsLoop(r) ==
    IF r.outcome # "return" THEN r
    ELSE IF ~Iterable(r.ret) THEN Raise(r, "TypeError")
    ELSE TeamsWritten(r, WriteTeams(r.files, Elements(r.ret)))

get_teams(fs, force, resp) ==
    TeamsLoop(request(fs, "/teams", FALSE, <<>>, "teams.json", force, resp))

get_team(fs, team_id, force, resp) ==
    request(fs, "/teams/" \o ToString(team_id), FALSE, <<>>,
            TeamFile(team_id), force, resp)

get_hero_benchmarks(fs, hero_id, force, resp) ==
    request(fs, "/benchmarks", FALSE, <<<<"hero_id", ToString(hero_id)>>>>,
            BenchmarksFile(hero_id), force, resp)

\* request_parse(match_id): POST /request/{match_id}
request_parse(fs, match_id, resp) ==
    request(fs, "/request/" \o ToString(match_id), TRUE, <<>>, None, FALSE, resp)

\* what a round of get_player_matches' loop did: [outcome, net, slept,
\* api_error]
NotAsked(outcome) ==
    [outcome |-> outcome, net |-> 0, slept |-> 0, api_error |-> FALSE]
Asked(p, outcome) ==
    [outcome |-> outcome, net |-> p.net, slept |-> p.slept,
     api_error |-> p.api_error]

\* job_id = self.request_parse(match['match_id'])['job']['jobId']
JobId(p) ==
    IF p.outcome # "return" THEN Asked(p, p.outcome)
    ELSE IF Tag(p.ret) # "obj" THEN Asked(p, "TypeError")
    ELSE IF ~HasItem(p.ret, K_job) THEN Asked(p, "KeyError")
    ELSE IF Tag(Item(p.ret, K_job)) # "obj" THEN Asked(p, "TypeError")
    ELSE IF ~HasItem(Item(p.ret, K_job), K_jobId) THEN Asked(p, "KeyError")
    ELSE Asked(p, "return")

\* one round of get_player_matches' loop: a parse is requested when the
\* match has no version or one below 20
ParseOne(fs, match, resp) ==
    IF Tag(match) # "obj" THEN NotAsked("TypeError")
    ELSE IF ~HasItem(match, K_match_id) \/ ~HasItem(match, K_version)
    THEN NotAsked("KeyError")
    ELSE IF Item(match, K_version) # JNull /\ Tag(Item(match, K_version)) # "num"
    THEN NotAsked("TypeError")
    ELSE IF Item(match, K_version) # JNull /\ Item(match, K_version)[2] >= 20
    THEN NotAsked("return")
    ELSE JobId(request_parse(fs, Item(match, K_match_id)[2], resp))

\* get_player_matches' loop over the matches, ended by the first exception
RECURSIVE ParseMatches(_, _, _)

AndThen(one, more) ==
    [outcome |-> more.outcome, net |-> one.net + more.net,
     slept |-> one.slept + more.slept,
     api_error |-> one.api_error \/ more.api_error]

OneParsed(fs, one, matches, resp) ==
    IF one.outcome # "return" THEN one
    ELSE AndThen(one, ParseMatches(fs, matches, resp))

ParseMatches(fs, matches, resp) ==
    IF matches = <<>> THEN NotAsked("return")
    ELSE OneParsed(fs, ParseOne(fs, Head(matches), resp), Tail(matches), resp)

\* get_player_matches after its loop
MatchesParsed(r, l) ==
    IF l.outcome # "return"
    THEN Raise([r EXCEPT !.net = r.net + l.net, !.slept = r.slept + l.slept,
                         !.api_error = r.api_error \/ l.api_error], l.outcome)
    ELSE [r EXCEPT !.net = r.net + l.net, !.slept = r.slept + l.slept,
                   !.api_error = r.api_error \/ l.api_error]

\* get_player_matches after self.get: `if parse: for match in matches`
MatchesLoop(r, parse, parse_resp) ==
    IF r.outcome # "return" \/ ~parse THEN r
    ELSE IF ~Iterable(r.ret) THEN Raise(r, "TypeError")
    ELSE MatchesParsed(r, ParseMatches(r.files, Elements(r.ret), parse_resp))

get_player_matches(fs, player_id, parse, days, force, resp, parse_resp) ==
    MatchesLoop(request(fs, "/players/" \o ToString(player_id) \o "/matches",
                        FALSE, <<<<"date", ToString(days)>>>>,
                        PlayerMatchesFile(player_id), force, resp),
                parse, parse_resp)

\* explorer after self.get: result.get("rows", [])
Rows(r, debug) ==
    IF r.outcome # "return" \/ debug THEN r
    ELSE IF Tag(r.ret) # "obj" THEN Raise(r, "AttributeError")
    ELSE IF HasItem(r.ret, K_rows) THEN [r EXCEPT !.ret = Item(r.ret, K_rows)]
    ELSE [r EXCEPT !.ret = JList(<<>>)]

explorer(fs, sql, debug, resp) ==
    Rows(request(fs, "/explorer", FALSE, <<<<"sql", sql>>>>, None, FALSE, resp),
         debug)

search_player(fs, search_key, resp) ==
    request(fs, "/search", FALSE, <<<<"q", search_key>>>>, None, FALSE, resp)

-----------------------------------------------------------------------------
(* The state machine of endpoint calls *)

GetTeams ==
    \E force \in BOOLEAN :
        \E resp \in Ask("teams.json", force, TeamsAnswers) :
            Done("get_teams", "", "teams.json", force, get_teams(files, force, resp))

GetTeam ==
    \E team_id \in TeamIds, force \in BOOLEAN :
        \E resp \in Ask(TeamFile(team_id), force, TeamAnswers[team_id]) :
            Done("get_team", ToString(team_id), TeamFile(team_id), force,
                 get_team(files, team_id, force, resp))

GetHeroBenchmarks ==
    \E hero_id \in HeroIds, force \in BOOLEAN :
        \E resp \in Ask(BenchmarksFile(hero_id), force,
                        BenchmarksAnswers[hero_id]) :
            Done("get_hero_benchmarks", ToString(hero_id),
                 BenchmarksFile(hero_id), force,
                 get_hero_benchmarks(files, hero_id, force, resp))

GetPlayerMatches ==
    \E player_id \in PlayerIds, parse \in BOOLEAN, days \in DaysChoices,
       force \in BOOLEAN :
        \E resp \in Ask(PlayerMatchesFile(player_id), force,
                        MatchesAnswers[days]),
           parse_resp \in IF parse THEN JobAnswers ELSE {TransportError} :
            Done("get_player_matches", ToString(days),
                 PlayerMatchesFile(player_id), force,
                 get_player_matches(files, player_id, parse, days, force,
                                    resp, parse_resp))

Explorer ==
    \E debug \in BOOLEAN, resp \in ExplorerAnswers :
        Done("explorer", "", None, FALSE, explorer(files, "q", debug, resp))

SearchPlayer ==
    \E resp \in SearchAnswers :
        Done("search_player", "", None, FALSE, search_player(files, "a", resp))

\* the team endpoints and the uncached queries
NextApi ==
    \/ GetTeams
    \/ GetTeam
    \/ Explorer
    \/ SearchPlayer

SpecApi == Init /\ [][NextApi]_vars

\* the cached endpoints that take query parameters
NextParams ==
    \/ GetHeroBenchmarks
    \/ GetPlayerMatches

SpecParams == Init /\ [][NextParams]_vars

-----------------------------------------------------------------------------
(* The fantasy scorer *)

K_player_slot == <<112, 108, 97, 121, 101, 114, 95, 115, 108, 111, 116>>
K_account_id == <<97, 99, 99, 111, 117, 110, 116, 95, 105, 100>>
K_kills == <<107, 105, 108, 108, 115>>
K_deaths == <<100, 101, 97, 116, 104, 115>>
K_assists == <<97, 115, 115, 105, 115, 116, 115>>
K_last_hits == <<108, 97, 115, 116, 95, 104, 105, 116, 115>>
K_denies == <<100, 101, 110, 105, 101, 115>>
K_gold_per_min == <<103, 111, 108, 100, 95, 112, 101, 114, 95, 109, 105, 110>>
K_xp_per_min == <<120, 112, 95, 112, 101, 114, 95, 109, 105, 110>>
K_tower_kills == <<116, 111, 119, 101, 114, 95, 107, 105, 108, 108, 115>>
K_tower_damage == <<116, 111, 119, 101, 114, 95, 100, 97, 109, 97, 103, 101>>
K_hero_damage == <<104, 101, 114, 111, 95, 100, 97, 109, 97, 103, 101>>
K_courier_kills ==
    <<99, 111, 117, 114, 105, 101, 114, 95, 107, 105, 108, 108, 115>>
K_observer_kills ==
    <<111, 98, 115, 101, 114, 118, 101, 114, 95, 107, 105, 108, 108, 115>>
K_sentry_kills == <<115, 101, 110, 116, 114, 121, 95, 107, 105, 108, 108, 115>>
K_roshan_kills == <<114, 111, 115, 104, 97, 110, 95, 107, 105, 108, 108, 115>>
K_teamfight_participation ==
    <<116, 101, 97, 109, 102, 105, 103, 104, 116, 95, 112, 97, 114, 116, 105, 99, 105, 112, 97, 116, 105, 111, 110>>
K_obs_placed == <<111, 98, 115, 95, 112, 108, 97, 99, 101, 100>>
K_sen_placed == <<115, 101, 110, 95, 112, 108, 97, 99, 101, 100>>
K_camps_stacked ==
    <<99, 97, 109, 112, 115, 95, 115, 116, 97, 99, 107, 101, 100>>
K_rune_pickups == <<114, 117, 110, 101, 95, 112, 105, 99, 107, 117, 112, 115>>
K_firstblood_claimed ==
    <<102, 105, 114, 115, 116, 98, 108, 111, 111, 100, 95, 99, 108, 97, 105, 109, 101, 100>>
K_stuns == <<115, 116, 117, 110, 115>>
K_hero_healing == <<104, 101, 114, 111, 95, 104, 101, 97, 108, 105, 110, 103>>
K_players == <<112, 108, 97, 121, 101, 114, 115>>
K_radiant_win == <<114, 97, 100, 105, 97, 110, 116, 95, 119, 105, 110>>
K_radiant_team == <<114, 97, 100, 105, 97, 110, 116, 95, 116, 101, 97, 109>>
K_dire_team == <<100, 105, 114, 101, 95, 116, 101, 97, 109>>

\* a scored metric: its name, the player fields its value adds up, and
\* whether the value goes through int()
Metric(param, fields, int) == [param |-> param, fields |-> fields, int |-> int]

\* the 'fantasy' dict of a profile, in the order of its keys
FantasyParams ==
    << Metric("kills", <<K_kills>>, FALSE),
       Metric("deaths", <<K_deaths>>, FALSE),
       Metric("assists", <<K_assists>>, FALSE),
       Metric("last_hits", <<K_last_hits, K_denies>>, FALSE),
       Metric("gold_per_min", <<K_gold_per_min>>, FALSE),
       Metric("xp_per_min", <<K_xp_per_min>>, FALSE),
       Metric("tower_kills", <<K_tower_kills>>, FALSE),
       Metric("tower_damage", <<K_tower_damage>>, FALSE),
       Metric("hero_damage", <<K_hero_damage>>, FALSE),
       Metric("courier_kills", <<K_courier_kills>>, FALSE),
       Metric("observer_kills", <<K_observer_kills>>, FALSE),
       Metric("sentry_kills", <<K_sentry_kills>>, FALSE),
       Metric("roshan_kills", <<K_roshan_kills>>, FALSE),
       Metric("teamfight", <<K_teamfight_participation>>, FALSE),
       Metric("observer_placed", <<K_obs_placed>>, FALSE),
       Metric("sentry_placed", <<K_sen_placed>>, FALSE),
       Metric("camps_stacked", <<K_camps_stacked>>, FALSE),
       Metric("runes_grabbed", <<K_rune_pickups>>, FALSE),
       Metric("first_blood", <<K_firstblood_claimed>>, TRUE),
       Metric("stuns", <<K_stuns>>, FALSE),
       Metric("hero_healing", <<K_hero_healing>>, FALSE) >>

\* obj[key]: "return" when it works, else the exception
Need(obj, key) ==
    IF Tag(obj) # "obj" THEN "TypeError"
    ELSE IF ~HasItem(obj, key) THEN "KeyError"
    ELSE "return"

\* an int or a bool, as arithmetic takes them
IsNumber(v) == Tag(v) \in {"num", "bool"}
Number(v) == IF Tag(v) = "bool" THEN (IF v[2] THEN 1 ELSE 0) ELSE v[2]

\* 'radiant' if player['player_slot'] < 5 else 'dire'
Side(player) ==
    IF Number(Item(player, K_player_slot)) < 5 THEN "radiant" ELSE "dire"

TeamKey(side) == IF side = "radiant" THEN K_radiant_team ELSE K_dire_team

\* radiant_win == flag, for a JSON value and a Python bool
EqualsBool(v, flag) ==
    CASE Tag(v) = "bool" -> v[2] = flag
      [] Tag(v) = "num" -> v[2] = (IF flag THEN 1 ELSE 0)
      [] OTHER -> FALSE

\* 'win' if match['radiant_win'] == (player_side == 'radiant') else 'loss'
Result(match, side) ==
    IF EqualsBool(Item(match, K_radiant_win), side = "radiant")
    THEN "win" ELSE "loss"

\* the 'value' expression of a metric: "return", or what it raises
ValueOutcome(player, m) ==
    IF \E i \in 1..Len(m.fields) : ~HasItem(player, m.fields[i]) THEN "KeyError"
    ELSE IF /\ Len(m.fields) > 1 \/ m.int
            /\ \E i \in 1..Len(m.fields) : ~IsNumber(Item(player, m.fields[i]))
    THEN "TypeError"
    ELSE "return"

\* the first outcome of a sequence that is not "return"
FirstRaised(outcomes) ==
    IF \A i \in 1..Len(outcomes) : outcomes[i] = "return" THEN "return"
    ELSE outcomes[CHOOSE i \in 1..Len(outcomes) :
                    /\ outcomes[i] # "return"
                    /\ \A j \in 1..(i - 1) : outcomes[j] = "return"]

\* building player_fantasy['fantasy']
ValuesOutcome(player) ==
    FirstRaised([i \in 1..Len(FantasyParams) |->
                    ValueOutcome(player, FantasyParams[i])])

\* self.fantasy.get(f'{param}_base', 0) + self.fantasy[param] * obj['value']:
\* "return", or what it raises
ScoreOutcome(config, player, m) ==
    IF ~In(config, m.param) THEN "KeyError"
    ELSE IF ~IsNumber(Item(player, m.fields[1])) THEN "TypeError"
    ELSE "return"

\* the scoring loop
ScoresOutcome(config, player) ==
    FirstRaised([i \in 1..Len(FantasyParams) |->
                    ScoreOutcome(config, player, FantasyParams[i])])

\* building player_fantasy['player']
HeaderOutcome(match, player, player_team) ==
    FirstRaised(<<Need(match, K_radiant_win), Need(player, K_account_id),
                  Need(player_team, K_team_id), Need(player, K_name),
                  Need(player_team, K_name)>>)

\* one round of the loop over the players: "return", or what it raises
PlayerOutcome(config, match, player) ==
    IF Need(player, K_player_slot) # "return" THEN Need(player, K_player_slot)
    ELSE IF ~IsNumber(Item(player, K_player_slot)) THEN "TypeError"
    ELSE IF Need(match, TeamKey(Side(player))) # "return"
    THEN Need(match, TeamKey(Side(player)))
    ELSE IF HeaderOutcome(match, player,
                          Item(match, TeamKey(Side(player)))) # "return"
    THEN HeaderOutcome(match, player, Item(match, TeamKey(Side(player))))
    ELSE IF ValuesOutcome(player) # "return" THEN ValuesOutcome(player)
    ELSE ScoresOutcome(config, player)

\* obj['value'] of a metric
Value(player, m) ==
    IF Len(m.fields) > 1
    THEN Number(Item(player, m.fields[1])) + Number(Item(player, m.fields[2]))
    ELSE Number(Item(player, m.fields[1]))

\* Score that leaves the base out
Score_WithoutBase(config, param, value) == Get(config, param, 0) * value

\* obj['score'], in thousandths
Score(config, param, value) ==
    Get(config, param \o "_base", 0) + Get(config, param, 0) * value

\* player_fantasy['fantasy'] after the scoring loop
Scores(config, player) ==
    [i \in 1..Len(FantasyParams) |->
        [param |-> FantasyParams[i].param,
         value |-> Value(player, FantasyParams[i]),
         score |-> Score(config, FantasyParams[i].param,
                         Value(player, FantasyParams[i]))]]

\* sum([obj['score'] for obj in player_fantasy['fantasy'].values()])
RECURSIVE Sum(_)
Sum(scores) ==
    IF scores = <<>> THEN 0
    ELSE Sum(SubSeq(scores, 1, Len(scores) - 1)) + scores[Len(scores)].score

\* player_fantasy
Profile(player, side, player_team, result, scores) ==
    [player |-> [slot |-> Item(player, K_player_slot), side |-> side,
                 account_id |-> Item(player, K_account_id),
                 team_id |-> Item(player_team, K_team_id),
                 name |-> Item(player, K_name),
                 team |-> Item(player_team, K_name),
                 result |-> result],
     fantasy |-> scores,
     total_score |-> Sum(scores)]

PlayerFantasy(config, match, player) ==
    Profile(player, Side(player), Item(match, TeamKey(Side(player))),
            Result(match, Side(player)), Scores(config, player))

\* the loop over match['players'], ended by the first exception:
\* [outcome, points]
RECURSIVE ScorePlayers(_, _, _, _)

PlayerScored(config, match, players, points, outcome) ==
    IF outcome # "return" THEN [outcome |-> outcome, points |-> <<>>]
    ELSE ScorePlayers(config, match, Tail(players),
                      Append(points, PlayerFantasy(config, match, Head(players))))

ScorePlayers(config, match, players, points) ==
    IF players = <<>> THEN [outcome |-> "return", points |-> points]
    ELSE PlayerScored(config, match, players, points,
                      PlayerOutcome(config, match, Head(players)))

FantasyPoints(points) == <<"fantasy_points", points>>

\* get_fantasy_points after its loop
FantasyScored(r, scored) ==
    IF scored.outcome # "return" THEN Raise(r, scored.outcome)
    ELSE [r EXCEPT !.ret = FantasyPoints(scored.points)]

\* get_fantasy_points after get_match: `for player in match['players']`
FantasyLoop(config, r) ==
    IF r.outcome # "return" THEN r
    ELSE IF Need(r.ret, K_players) # "return"
    THEN Raise(r, Need(r.ret, K_players))
    ELSE IF ~Iterable(Item(r.ret, K_players)) THEN Raise(r, "TypeError")
    ELSE FantasyScored(r, ScorePlayers(config, r.ret,
                                       Elements(Item(r.ret, K_players)), <<>>))

get_match(fs, match_id, force, resp) ==
    request(fs, "/matches/" \o ToString(match_id), FALSE, <<>>,
            MatchFile(match_id), force, resp)

get_fantasy_points(fs, config, match_id, force, resp) ==
    FantasyLoop(config, get_match(fs, match_id, force, resp))

-----------------------------------------------------------------------------
(* The state machine of fantasy scoring *)

\* the fantasy arguments the constructor is given: none, another
\* multiplier of kills, a base for kills, a key that names no metric
FantasyArgs ==
    { NoFantasy, FantasyDict(<<<<"kills", 500>>>>),
      FantasyDict(<<<<"kills_base", 1000>>>>),
      FantasyDict(<<<<"bounty", 7000>>>>) }

\* the kills of the first player: none, or MaxStat
StatChoices == {0, MaxStat}

\* a player of a parsed league match, the statistics set by k
Player(player_slot, account_id, k) ==
    JObj(<<
        <<K_player_slot, JNum(player_slot)>>,
        <<K_account_id, JNum(account_id)>>,
        <<K_name, JStr(S_a)>>,
        <<K_kills, JNum(k)>>,
        <<K_deaths, JNum(k \div 2)>>,
        <<K_assists, JNum(k)>>,
        <<K_last_hits, JNum(10 * k)>>,
        <<K_denies, JNum(k)>>,
        <<K_gold_per_min, JNum(100 * k)>>,
        <<K_xp_per_min, JNum(100 * k)>>,
        <<K_tower_kills, JNum(k % 2)>>,
        <<K_tower_damage, JNum(100 * k)>>,
        <<K_hero_damage, JNum(1000 * k)>>,
        <<K_courier_kills, JNum(0)>>,
        <<K_observer_kills, JNum(k % 2)>>,
        <<K_sentry_kills, JNum(0)>>,
        <<K_roshan_kills, JNum(k % 2)>>,
        <<K_teamfight_participation, JNum(1)>>,
        <<K_obs_placed, JNum(k)>>,
        <<K_sen_placed, JNum(k)>>,
        <<K_camps_stacked, JNum(k % 3)>>,
        <<K_rune_pickups, JNum(k)>>,
        <<K_firstblood_claimed, JNum(IF k = 1 THEN 1 ELSE 0)>>,
        <<K_stuns, JNum(k)>>,
        <<K_hero_healing, JNum(0)>> >>)

\* the slot of the i-th player: the slots of radiant are 0..4 and those of
\* dire 128..132
Slot(i, k) == IF (k + i) % 2 = 1 THEN i - 1 ELSE 127 + i

\* /matches/{match_id}: n players, the first with k kills, and radiant_win
\* set by k
Match(n, k) ==
    JObj(<< <<K_match_id, JNum(1)>>,
            <<K_radiant_win, JBool(k % 3 = 0)>>,
            <<K_radiant_team, Team(1, S_a)>>,
            <<K_dire_team, Team(2, S_a)>>,
            <<K_players,
              JList([i \in 1..n |->
                        Player(Slot(i, k), i, (k + i - 1) % (MaxStat + 1))])>> >>)

\* a match outside a league has no teams
PublicMatch ==
    JObj(<< <<K_match_id, JNum(1)>>,
            <<K_radiant_win, JBool(TRUE)>>,
            <<K_players, JList(<<Player(0, 1, 1)>>)>> >>)

MatchValues ==
    { Match(MaxPlayers, k) : k \in StatChoices }
    \cup {PublicMatch, ErrorObject}

MatchAnswers == AnswersOf(MatchValues)

InitFantasy ==
    /\ api_key = None
    /\ locale_encoding \in {"utf-8", "cp1252"}
    /\ files = [k \in Keys |-> Absent]
    /\ stored = [k \in Keys |-> NoValue]
    /\ last = Idle
    /\ fantasy_arg \in FantasyArgs
    /\ fantasy = post_init_fantasy(fantasy_arg)

GetMatch ==
    \E match_id \in MatchIds, force \in BOOLEAN :
        \E resp \in Ask(MatchFile(match_id), force, MatchAnswers) :
            Done("get_match", ToString(match_id), MatchFile(match_id), force,
                 get_match(files, match_id, force, resp))

GetFantasyPoints ==
    \E match_id \in MatchIds, force \in BOOLEAN :
        \E resp \in Ask(MatchFile(match_id), force, MatchAnswers) :
            Done("get_fantasy_points", ToString(match_id), MatchFile(match_id),
                 force,
                 get_fantasy_points(files, fantasy, match_id, force, resp))

NextFantasy == GetMatch \/ GetFantasyPoints

SpecFantasy == InitFantasy /\ [][NextFantasy]_vars

-----------------------------------------------------------------------------
(* Properties of the endpoint methods *)

EndpointOps ==
    {"get_teams", "get_team", "get_hero_benchmarks", "get_player_matches",
     "explorer", "search_player", "get_match", "get_fantasy_points"}

\* C7: when the API answers an endpoint method's request with an error
\* object, the method returns normally; it raises nothing
C7_ApiErrorReturns ==
    (last.op \in EndpointOps /\ last.api_error) => last.outcome = "return"

\* the resource the last call asked for: the benchmarks of hero_id, the
\* matches of the last `days` days
AskedResource ==
    IF last.op = "get_hero_benchmarks"
    THEN { Benchmarks(h) : h \in { x \in HeroIds : ToString(x) = last.arg } }
    ELSE { PlayerMatches(d) : d \in { x \in DaysChoices : ToString(x) = last.arg } }

\* C9: a call of a cached endpoint method with query parameters that
\* returns data returns the resource its parameters name, also when the
\* cache answers: calls with one cache key ask for one resource
C9_SameKeySameResource ==
    (/\ last.op \in {"get_hero_benchmarks", "get_player_matches"}
     /\ last.outcome = "return"
     /\ ~last.api_error)
        => last.ret \in AskedResource

\* C10: every file of the cache directory loads as the payload the API
\* returned to the request of that file's cache key
C10_FilesHoldPayloads ==
    \A k \in Keys :
        files[k].exists
            => /\ stored[k] # NoValue
               /\ CacheRead(files, k) = [ok |-> TRUE, value |-> stored[k]]

-----------------------------------------------------------------------------
(* Properties of the fantasy scorer *)

\* the profiles the last call returned, none when it was no
\* get_fantasy_points or raised
LastPoints ==
    IF last.op = "get_fantasy_points" /\ last.outcome = "return"
    THEN last.ret[2] ELSE <<>>

\* the configured base of a metric, 0 without a <metric>_base entry, and
\* its configured multiplier, in thousandths
BaseOf(param) ==
    IF \E i \in 1..Len(fantasy) : fantasy[i][1] = param \o "_base"
    THEN fantasy[CHOOSE i \in 1..Len(fantasy) : fantasy[i][1] = param \o "_base"][2]
    ELSE 0
MultiplierOf(param) ==
    fantasy[CHOOSE i \in 1..Len(fantasy) : fantasy[i][1] = param][2]

\* base + multiplier * value of the first n metrics of a profile, added up
RECURSIVE TotalOf(_, _)
TotalOf(scores, n) ==
    IF n = 0 THEN 0
    ELSE TotalOf(scores, n - 1)
         + BaseOf(scores[n].param) + MultiplierOf(scores[n].param) * scores[n].value

\* C8: in every returned profile each scored metric occurs exactly once,
\* its score is base + multiplier * value with base 0 when there is no
\* <metric>_base entry, and total_score is the sum of these scores; with the
\* default configuration kills=5 scores 1.5 and deaths=2 scores 2.4
C8_ScoreIsBasePlusProduct ==
    \A p \in 1..Len(LastPoints) :
        /\ Len(LastPoints[p].fantasy) = Len(FantasyParams)
        /\ \A i \in 1..Len(FantasyParams) :
              /\ LastPoints[p].fantasy[i].param = FantasyParams[i].param
              /\ \A j \in 1..Len(FantasyParams) :
                    FantasyParams[j].param = FantasyParams[i].param => j = i
              /\ LastPoints[p].fantasy[i].score =
                    BaseOf(FantasyParams[i].param)
                    + MultiplierOf(FantasyParams[i].param)
                      * LastPoints[p].fantasy[i].value
              /\ (/\ fantasy = FANTASY
                  /\ FantasyParams[i].param = "kills"
                  /\ LastPoints[p].fantasy[i].value = 5)
                    => LastPoints[p].fantasy[i].score = 1500
              /\ (/\ fantasy = FANTASY
                  /\ FantasyParams[i].param = "deaths"
                  /\ LastPoints[p].fantasy[i].value = 2)
                    => LastPoints[p].fantasy[i].score = 2400
        /\ LastPoints[p].total_score =
              TotalOf(LastPoints[p].fantasy, Len(LastPoints[p].fantasy))

\* C8 witness: with the default configuration a player with 5 kills and 2
\* deaths was scored 1.5 and 2.4, and his total is not zero
C8_Witness ==
    /\ fantasy = FANTASY
    /\ \E p \in 1..Len(LastPoints) :
          /\ \E i \in 1..Len(LastPoints[p].fantasy) :
                LastPoints[p].fantasy[i] =
                    [param |-> "kills", value |-> 5, score |-> 1500]
          /\ \E i \in 1..Len(LastPoints[p].fantasy) :
                LastPoints[p].fantasy[i] =
                    [param |-> "deaths", value |-> 2, score |-> 2400]
          /\ LastPoints[p].total_score # 0

\* the match record the last get_fantasy_points read: from the cache file, or
\* from the API's response
LastMatch ==
    IF last.op # "get_fantasy_points" THEN NoValue
    ELSE IF last.hit THEN ReadBytes(last.before.bytes).value
    ELSE last.json

\* the last get_fantasy_points read a match: an object with a list of players
\* and without the key error
ReadMatch ==
    /\ LastMatch # NoValue
    /\ Tag(LastMatch) = "obj"
    /\ ContainsError(LastMatch) = "False"
    /\ HasItem(LastMatch, K_players)
    /\ Tag(Item(LastMatch, K_players)) = "list"

\* the players of that match, in the match's order
LastPlayers == Item(LastMatch, K_players)[2]

\* the side of a player slot, and the side the radiant_win flag names
SideOfSlot(slot) == IF slot < 5 THEN "radiant" ELSE "dire"
Winner(match) ==
    IF Item(match, K_radiant_win) = JBool(TRUE) THEN "radiant" ELSE "dire"

\* C12: get_fantasy_points returns one profile per player of the match it
\* read, in the match's player order; the side of a profile is radiant when
\* player_slot < 5 and dire otherwise, and its result is win exactly when
\* that side is the side the radiant_win flag names, else loss
C12_OneProfilePerPlayer ==
    ReadMatch
        => /\ last.outcome = "return"
           /\ Len(last.ret[2]) = Len(LastPlayers)
           /\ \A i \in 1..Len(LastPlayers) :
                 /\ last.ret[2][i].player.slot
                        = Item(LastPlayers[i], K_player_slot)
                 /\ last.ret[2][i].player.account_id
                        = Item(LastPlayers[i], K_account_id)
                 /\ last.ret[2][i].player.side
                        = SideOfSlot(Item(LastPlayers[i], K_player_slot)[2])
                 /\ last.ret[2][i].player.result
                        = IF last.ret[2][i].player.side = Winner(LastMatch)
                          THEN "win" ELSE "loss"

\* the keys of a mapping
KeysOf(d) == { d[i][1] : i \in 1..Len(d) }

\* the keys the scorer looks up: every scored metric and its <metric>_base
ScoredKeys ==
    { FantasyParams[i].param : i \in 1..Len(FantasyParams) }
    \cup { FantasyParams[i].param \o "_base" : i \in 1..Len(FantasyParams) }

\* the last call read a league match: one with the records of both teams
ReadLeagueMatch ==
    /\ ReadMatch
    /\ HasItem(LastMatch, K_radiant_team)
    /\ HasItem(LastMatch, K_dire_team)

\* the score of a metric and the total of a profile's first n metrics under
\* the default FANTASY
DefaultScore(param, value) ==
    Get(FANTASY, param \o "_base", 0) + Get(FANTASY, param, 0) * value
RECURSIVE DefaultTotal(_, _)
DefaultTotal(scores, n) ==
    IF n = 0 THEN 0
    ELSE DefaultTotal(scores, n - 1)
         + DefaultScore(scores[n].param, scores[n].value)

\* C13: the effective configuration has exactly the keys of FANTASY and of
\* the constructor's fantasy argument, each once, with the argument's value
\* where it has the key and the default otherwise; so it has a multiplier for
\* every scored metric and scoring a league match raises no KeyError; and
\* when no key of the argument is a scored metric or its <metric>_base, every
\* score and total is what the default FANTASY gives
C13_OverridesMergeIntoDefaults ==
    /\ KeysOf(fantasy) = KeysOf(FANTASY) \cup KeysOf(fantasy_arg.items)
    /\ \A i, j \in 1..Len(fantasy) : fantasy[i][1] = fantasy[j][1] => i = j
    /\ \A i \in 1..Len(fantasy) :
          fantasy[i][2] = IF In(fantasy_arg.items, fantasy[i][1])
                          THEN Get(fantasy_arg.items, fantasy[i][1], 0)
                          ELSE Get(FANTASY, fantasy[i][1], 0)
    /\ \A i \in 1..Len(FantasyParams) : In(fantasy, FantasyParams[i].param)
    /\ ReadLeagueMatch => last.outcome # "KeyError"
    /\ KeysOf(fantasy_arg.items) \cap ScoredKeys = {}
          => \A p \in 1..Len(LastPoints) :
                /\ \A i \in 1..Len(LastPoints[p].fantasy) :
                      LastPoints[p].fantasy[i].score =
                          DefaultScore(LastPoints[p].fantasy[i].param,
                                       LastPoints[p].fantasy[i].value)
                /\ LastPoints[p].total_score =
                      DefaultTotal(LastPoints[p].fantasy,
                                   Len(LastPoints[p].fantasy))

\* C13 witness: a client constructed with an override that names no scored
\* metric holds that key beside the defaults and scored a league match
C13_Witness ==
    /\ fantasy_arg.given
    /\ KeysOf(fantasy_arg.items) # {}
    /\ KeysOf(fantasy_arg.items) \cap ScoredKeys = {}
    /\ KeysOf(fantasy_arg.items) \subseteq KeysOf(fantasy)
    /\ ReadLeagueMatch
    /\ Len(LastPoints) = MaxPlayers
    /\ \E p \in 1..Len(LastPoints) : LastPoints[p].total_score # 0

=============================================================================
